---------------------------- MODULE Spec2Model ----------------------------
(***************************************************************************)
(* Model of the MCP client (src/mcp_client.py) and of the tool-calling     *)
(* agent built on it (src/main.py).                                        *)
(*                                                                         *)
(* JSON values are records tagged by k: null, num, str, list, obj.  An     *)
(* object carries f, a record over Keys whose absent keys map to Absent.   *)
(* A Python call either returns (ok = TRUE) or raises (ok = FALSE, err).   *)
(*                                                                         *)
(* Specifications: Spec, a run of main(); SpecLive, the same when every    *)
(* call made inside chat returns; SpecRequests, the same with the log of   *)
(* the client's requests kept; SpecRefresh, the agent with list_tools      *)
(* called between turns; SpecClient, an MCPClient used directly;           *)
(* SpecSse and SpecExtract, the two pure functions on their inputs.        *)
(***************************************************************************)
EXTENDS Naturals, Sequences, FiniteSets, TLC

VARIABLES
    session_id,   \* MCPClient.session_id
    _tools,       \* MCPClient._tools
    init_result,  \* initialize's local `result` while the notification is sent
    messages,     \* AIFoundryMCPAgent.messages
    pc,           \* position of the program: constructor, console loop, chat
    tools,        \* chat's local `tools` (schema built at the turn's start)
    batch,        \* chat's assistant_message.tool_calls
    idx,          \* position of the for loop over batch (1-based)
    outcome,      \* how the last chat call ended: returned a value or raised
    sent,         \* ghost: arguments of the last completion call
    turn,         \* ghost: bookkeeping of the current chat turn
    budget,       \* ghost: chat turns, completion calls and invocations left
    last,         \* ghost: the last client operation, its request and response
    hdrOk,        \* ghost: header of the last successful response carrying one
    hdrAny,       \* ghost: header of the last response of any status carrying one
    requests,     \* ghost: the requests the agent's client sent, in order (kept
                  \*        when requests.on, under SpecRequests)
    sse_text,     \* input of _parse_sse_response under SpecSse
    sse_out,      \* its outcome
    ex_in,        \* input of _extract_text_content under SpecExtract
    ex_out        \* its outcome

vars == <<session_id, _tools, init_result, messages, pc, tools, batch, idx,
          outcome, sent, turn, budget, last, hdrOk, hdrAny, requests,
          sse_text, sse_out, ex_in, ex_out>>

clientVars == <<session_id, _tools, init_result, last, hdrOk, hdrAny>>

chatVars == <<messages, tools, batch, idx, outcome, sent, turn, budget>>

pureVars == <<sse_text, sse_out, ex_in, ex_out>>

----------------------------------------------------------------------------
(* Bounds of the model.                                                    *)

MaxFrames == 3     \* lines of an SSE body
MaxItems == 3      \* elements of a content array
MaxTurns == 2      \* chat turns of one agent
MaxCalls == 3      \* completion calls of one agent
MaxInvocations == 2 \* tool invocations issued by the model over one agent's life
MaxBatch == 2      \* tool invocations in one completion response

----------------------------------------------------------------------------
(* JSON values.                                                            *)

Keys == {"result", "tools", "content", "type", "text", "error",
         "name", "description", "inputSchema"}

Absent == [k |-> "absent"]
NoKeys == [key \in Keys |-> Absent]

JNull == [k |-> "null"]
JNum == [k |-> "num"]
JStr(s) == [k |-> "str", s |-> s]
JList(xs) == [k |-> "list", xs |-> xs]
JObj(f) == [k |-> "obj", f |-> f]
EmptyObj == JObj(NoKeys)

(* The strings of the model are "", "A", "B", "result", "tools", "text",    *)
(* "image", "search", "fetch", "object".  None of the non-empty ones is a  *)
(* substring of another, so Python's `sub in s` on them is: sub is empty   *)
(* or equals s.                                                            *)
StrContains(s, sub) == sub = "" \/ s = sub

(* Python's `key in v` for a str key: dict membership, list membership,    *)
(* substring test on a str; TypeError on None, numbers and booleans.       *)
PyIn(key, v) ==
    CASE v.k = "obj" -> [ok |-> TRUE, v |-> v.f[key] # Absent]
      [] v.k = "list" -> [ok |-> TRUE, v |-> \E i \in 1..Len(v.xs) : v.xs[i] = JStr(key)]
      [] v.k = "str" -> [ok |-> TRUE, v |-> StrContains(v.s, key)]
      [] OTHER -> [ok |-> FALSE, err |-> "TypeError"]

(* A Python str as a sequence of units: the empty string has none.         *)
Chars(s) == IF s = "" THEN <<>> ELSE <<s>>

RECURSIVE Join(_)
(* "\n".join(parts) for parts a sequence of unit sequences.                *)
Join(parts) ==
    IF parts = <<>> THEN <<>>
    ELSE IF Len(parts) = 1 THEN parts[1]
    ELSE parts[1] \o <<"\n">> \o Join(Tail(parts))

----------------------------------------------------------------------------
(* MCPClient._parse_sse_response.  A body is a sequence of lines; a line   *)
(* is [p, d]: p its prefix ("data: ", "data:" with no space, or "other"    *)
(* for event:, id:, comment and empty lines) and d what follows the        *)
(* prefix: blank text, text json.loads rejects ("bad"), or a JSON value.   *)

Blank == [k |-> "blank"]
Bad == [k |-> "bad"]

RECURSIVE ParseFrom(_, _, _)
ParseFrom(lines, i, result) ==
    IF i > Len(lines) THEN [ok |-> TRUE, v |-> result]
    ELSE LET line == lines[i] IN
         IF line.p # "data: " THEN ParseFrom(lines, i + 1, result)
         ELSE IF line.d = Blank THEN ParseFrom(lines, i + 1, result)
         ELSE IF line.d = Bad THEN ParseFrom(lines, i + 1, result)
         ELSE LET has == PyIn("result", line.d) IN
              IF ~has.ok THEN has
              ELSE IF has.v THEN ParseFrom(lines, i + 1, line.d)
              ELSE ParseFrom(lines, i + 1, result)

SseUnwrapMutant(lines) ==
    LET r == ParseFrom(lines, 1, EmptyObj) IN
    IF r.ok /\ r.v.k = "obj" /\ r.v.f["result"] # Absent
    THEN [ok |-> TRUE, v |-> r.v.f["result"]]
    ELSE r

_parse_sse_response(lines) == ParseFrom(lines, 1, EmptyObj)

----------------------------------------------------------------------------
(* MCPClient._extract_text_content.                                        *)

(* The items `for item in contents` yields, or TypeError: the elements of  *)
(* a list, the characters of a str, the keys of a dict.                    *)
Iterate(contents) ==
    CASE contents.k = "list" -> [ok |-> TRUE, v |-> contents.xs]
      [] contents.k = "str" ->
            [ok |-> TRUE, v |-> [i \in 1..Len(Chars(contents.s)) |-> JStr(contents.s)]]
      [] contents.k = "obj" ->
            [ok |-> TRUE, v |-> <<>>]  \* keys are str, none is a dict
      [] OTHER -> [ok |-> FALSE, err |-> "TypeError"]

IsTextItem(item) == item.k = "obj" /\ item.f["type"] = JStr("text")

(* item.get("text", "") *)
TextOf(item) == IF item.f["text"] = Absent THEN JStr("") ELSE item.f["text"]

RECURSIVE TextParts(_)
TextParts(items) ==
    IF items = <<>> THEN <<>>
    ELSE (IF IsTextItem(Head(items)) THEN <<TextOf(Head(items))>> ELSE <<>>)
         \o TextParts(Tail(items))

_extract_text_content(result) ==
    IF result.k = "obj" /\ result.f["content"] # Absent
    THEN LET it == Iterate(result.f["content"]) IN
         IF ~it.ok THEN it
         ELSE LET parts == TextParts(it.v) IN
              IF \E i \in 1..Len(parts) : parts[i].k # "str"
              THEN [ok |-> FALSE, err |-> "TypeError"]
              ELSE [ok |-> TRUE, k |-> "joined",
                    s |-> Join([i \in 1..Len(parts) |-> Chars(parts[i].s)])]
    ELSE [ok |-> TRUE, k |-> "str", of |-> result]

----------------------------------------------------------------------------
(* MCPClient._make_request.  A response is [status, sid, ctype, body]:     *)
(* status "ok" (raise_for_status passes), "error" (it raises) or "timeout" *)
(* (client.post itself raises, there is no response); sid the value of the *)
(* Mcp-Session-Id response header or NoHeader; ctype "sse" when the        *)
(* Content-Type contains text/event-stream, else "json"; body the SSE      *)
(* lines, or for response.json() a JSON value or Bad.                      *)

None == "<None>"
NoHeader == "<absent>"

SseBody(lines) == [k |-> "sse", lines |-> lines]

(* headers["Mcp-Session-Id"] is set only `if self.session_id:` *)
RequestHeader(sess) == IF sess # None /\ sess # "" THEN sess ELSE NoHeader

SessionFirstWinsMutant(sess, resp) ==
    IF resp.status = "ok" /\ resp.sid # NoHeader /\ sess = None THEN resp.sid ELSE sess

SessionCaptureBeforeStatusMutant(sess, resp) ==
    IF resp.status # "timeout" /\ resp.sid # NoHeader THEN resp.sid ELSE sess

SessionClearedOnFailureMutant(sess, resp) ==
    IF resp.status = "ok"
    THEN IF resp.sid # NoHeader THEN resp.sid ELSE sess
    ELSE None

SessionAfter(sess, resp) ==
    IF resp.status = "ok" /\ resp.sid # NoHeader THEN resp.sid ELSE sess

(* The value _make_request returns, or the exception it raises.            *)
ResponseValue(resp) ==
    IF resp.status = "timeout" THEN [ok |-> FALSE, err |-> "TransportError"]
    ELSE IF resp.status # "ok" THEN [ok |-> FALSE, err |-> "HTTPStatusError"]
    ELSE IF resp.ctype = "sse" THEN _parse_sse_response(resp.body.lines)
    ELSE IF resp.body = Bad THEN [ok |-> FALSE, err |-> "JSONDecodeError"]
    ELSE [ok |-> TRUE, v |-> resp.body]

(* Number of client.post calls one _make_request makes.                    *)
Posts(resp) == 1

(* Python's v[key] for a str key: dict lookup (KeyError when absent);      *)
(* TypeError on a str or list (indices must be integers) and on the rest.  *)
PyIndex(v, key) ==
    IF v.k = "obj"
    THEN IF v.f[key] # Absent THEN [ok |-> TRUE, v |-> v.f[key]]
         ELSE [ok |-> FALSE, err |-> "KeyError"]
    ELSE [ok |-> FALSE, err |-> "TypeError"]

----------------------------------------------------------------------------
(* MCPClient.list_tools, given the stored tool set and what _make_request  *)
(* gave: [raised, stored, ret] (ret only when it returns).                 *)

Raise(stored, e) == [raised |-> TRUE, stored |-> stored, err |-> e]

list_tools(stored, out) ==
    IF ~out.ok THEN Raise(stored, out.err)
    ELSE LET hasResult == PyIn("result", out.v) IN
         IF ~hasResult.ok THEN Raise(stored, hasResult.err)
         ELSE IF ~hasResult.v THEN [raised |-> FALSE, stored |-> stored, ret |-> stored]
         ELSE LET res == PyIndex(out.v, "result") IN
              IF ~res.ok THEN Raise(stored, res.err)
              ELSE LET hasTools == PyIn("tools", res.v) IN
                   IF ~hasTools.ok THEN Raise(stored, hasTools.err)
                   ELSE IF ~hasTools.v
                        THEN [raised |-> FALSE, stored |-> stored, ret |-> stored]
                        ELSE LET listing == PyIndex(res.v, "tools") IN
                             IF ~listing.ok THEN Raise(stored, listing.err)
                             ELSE [raised |-> FALSE, stored |-> listing.v,
                                   ret |-> listing.v]

(* MCPClient.call_tool: result.get("result", result); a value that is not  *)
(* a dict has no .get (AttributeError).                                    *)
call_tool(out) ==
    IF ~out.ok THEN out
    ELSE IF out.v.k # "obj" THEN [ok |-> FALSE, err |-> "AttributeError"]
    ELSE IF out.v.f["result"] # Absent THEN [ok |-> TRUE, v |-> out.v.f["result"]]
    ELSE [ok |-> TRUE, v |-> out.v]

----------------------------------------------------------------------------
(* Values the server may send.                                             *)

With(key, v) == JObj([NoKeys EXCEPT ![key] = v])

TextBlock(s) == JObj([NoKeys EXCEPT !["type"] = JStr("text"), !["text"] = JStr(s)])
ImageBlock == JObj([NoKeys EXCEPT !["type"] = JStr("image"), !["text"] = JStr("B")])

ToolA == With("name", JStr("search"))
ToolB == JObj([NoKeys EXCEPT !["name"] = JStr("fetch"),
                             !["description"] = JStr("A"),
                             !["inputSchema"] = EmptyObj])
Listing1 == JList(<<ToolA>>)
Listing2 == JList(<<ToolA, ToolB>>)

NotYet == [k |-> "pending"]
NoInput == [k |-> "unused"]
NoOp == [method |-> "none"]

(* No log is kept; the log of a client that has sent nothing.              *)
NoLog == [on |-> FALSE, log |-> <<>>]
EmptyLog == [on |-> TRUE, log |-> <<>>]

(* The request log after one more request: an entry is the method, and    *)
(* whether _make_request returned a value for it.                          *)
Logged(log, method, resp) ==
    IF log.on
    THEN [log EXCEPT !.log = Append(@, [method |-> method,
                                        ok |-> ResponseValue(resp).ok])]
    ELSE log

(* turn: start, the length of the history when chat was entered; calls,    *)
(* the completion calls issued; toolPosts, the tools/call requests sent;   *)
(* rounds, the number of invocations of each response that carried some;   *)
(* httpFailed, a tools/call request got no successful response; malformed, *)
(* the loop reached an invocation whose argument string is no JSON.        *)
NewTurn(start, calls) ==
    [start |-> start, calls |-> calls, toolPosts |-> 0, rounds |-> <<>>,
     httpFailed |-> FALSE, malformed |-> FALSE]

NoTurn == NewTurn(0, 0)

(* The state of a fresh MCPClient and a fresh agent (before __init__).     *)
ClientFresh ==
    /\ session_id = None
    /\ _tools = JList(<<>>)
    /\ init_result = NotYet
    /\ last = NoOp
    /\ hdrOk = NoHeader
    /\ hdrAny = NoHeader

ChatFresh ==
    /\ messages = <<>>
    /\ tools = NotYet
    /\ batch = <<>>
    /\ idx = 1
    /\ outcome = NotYet
    /\ sent = NotYet
    /\ turn = NoTurn
    /\ budget = [turns |-> MaxTurns, calls |-> MaxCalls, inv |-> MaxInvocations]

PureUnused ==
    /\ sse_text = <<>>
    /\ sse_out = NoInput
    /\ ex_in = NoInput
    /\ ex_out = NoInput

----------------------------------------------------------------------------
(* SpecSse: _parse_sse_response applied to every body of at most MaxFrames *)
(* lines.                                                                  *)

SsePayloads ==
    {Blank, Bad, With("result", JStr("A")), With("result", JStr("B")),
     With("error", JStr("A")), EmptyObj, JNum, JNull,
     JStr("result"), JStr("A"), JList(<<JStr("result")>>), JList(<<>>)}

SseLines ==
    {[p |-> "data: ", d |-> d] : d \in SsePayloads}
    \cup {[p |-> "data:", d |-> With("result", JStr("A"))], [p |-> "other", d |-> Blank]}

SseBodies == UNION {[1..n -> SseLines] : n \in 0..MaxFrames}

InitSse ==
    /\ ClientFresh /\ ChatFresh /\ pc = "pure"
    /\ requests = NoLog
    /\ sse_text \in SseBodies
    /\ sse_out = NotYet
    /\ ex_in = NoInput
    /\ ex_out = NoInput

ParseSse ==
    /\ sse_out = NotYet
    /\ sse_out' = _parse_sse_response(sse_text)
    /\ UNCHANGED <<clientVars, chatVars, pc, sse_text, ex_in, ex_out, requests>>

NextSse == ParseSse

SpecSse == InitSse /\ [][NextSse]_vars

----------------------------------------------------------------------------
(* SpecExtract: _extract_text_content applied to tool results: values that *)
(* are no object, objects without content, content that is no list, and    *)
(* every content array of at most MaxItems blocks.                         *)

ContentItems ==
    {TextBlock("A"), TextBlock("B"), TextBlock(""), ImageBlock,
     With("type", JStr("text")),
     JObj([NoKeys EXCEPT !["type"] = JStr("text"), !["text"] = JNum]),
     JObj([NoKeys EXCEPT !["type"] = JStr("text"), !["text"] = JNull]),
     With("text", JStr("A")), JStr("A"), JNum}

ContentArrays == UNION {[1..n -> ContentItems] : n \in 0..MaxItems}

ToolResults ==
    {With("content", JList(xs)) : xs \in ContentArrays}
    \cup {With("content", c) : c \in {JNum, JNull, JStr("A"), JStr(""), TextBlock("A")}}
    \cup {JNull, JNum, JStr("A"), JList(<<TextBlock("A")>>), EmptyObj, TextBlock("A")}

InitExtract ==
    /\ ClientFresh /\ ChatFresh /\ pc = "pure"
    /\ requests = NoLog
    /\ sse_text = <<>>
    /\ sse_out = NoInput
    /\ ex_in \in ToolResults
    /\ ex_out = NotYet

ExtractText ==
    /\ ex_out = NotYet
    /\ ex_out' = _extract_text_content(ex_in)
    /\ UNCHANGED <<clientVars, chatVars, pc, sse_text, sse_out, ex_in, requests>>

NextExtract == ExtractText

SpecExtract == InitExtract /\ [][NextExtract]_vars

----------------------------------------------------------------------------
(* SpecClient: one MCPClient used directly, its operations called in any   *)
(* order, the server answering each request with any response of           *)
(* ClientResponses.                                                        *)

JsonBody(b) == [ctype |-> "json", body |-> b]

ClientBodies ==
    {JsonBody(b) :
        b \in {Bad, EmptyObj, JList(<<>>),
               With("result", JNull), With("result", EmptyObj),
               With("result", With("tools", Listing1)),
               With("result", With("tools", Listing2)),
               With("result", With("content", JList(<<TextBlock("A")>>))),
               With("error", JStr("A"))}}
    \cup {[ctype |-> "sse", body |-> SseBody(l)] :
        l \in {<<>>,
               <<[p |-> "data: ", d |-> With("error", JStr("A"))]>>,
               <<[p |-> "other", d |-> Blank],
                 [p |-> "data: ", d |-> With("result", With("tools", Listing1))]>>}}

Response(status, sid, b) ==
    [status |-> status, sid |-> sid, ctype |-> b.ctype, body |-> b.body]

NoBody == JsonBody(Bad)

(* Every body with and without a session header; every header value on a  *)
(* listing, on an object without result, and on every failing response.    *)
ClientResponses ==
    {Response("error", sid, NoBody) : sid \in {NoHeader, "s1", "s2", ""}}
    \cup {Response("timeout", NoHeader, NoBody)}
    \cup {Response("ok", sid, b) : sid \in {NoHeader, "s1"}, b \in ClientBodies}
    \cup {Response("ok", sid, JsonBody(b)) :
            sid \in {NoHeader, "s1", "s2", ""},
            b \in {EmptyObj, With("result", With("tools", Listing1))}}

InitClient ==
    /\ ClientFresh /\ ChatFresh /\ PureUnused
    /\ requests = NoLog
    /\ pc = "ready"

(* _make_request's effect on the client, and the ghost record of it.       *)
Exchange(method, resp, raised, err, ret) ==
    /\ session_id' = SessionAfter(session_id, resp)
    /\ hdrOk' = IF resp.status = "ok" /\ resp.sid # NoHeader THEN resp.sid ELSE hdrOk
    /\ hdrAny' = IF resp.status # "timeout" /\ resp.sid # NoHeader
                 THEN resp.sid ELSE hdrAny
    /\ last' = [method |-> method,
                hdr |-> RequestHeader(session_id),
                posts |-> Posts(resp),
                resp |-> resp,
                value |-> ResponseValue(resp),
                before |-> [session_id |-> session_id, _tools |-> _tools,
                            init_result |-> init_result,
                            hdrOk |-> hdrOk, hdrAny |-> hdrAny],
                raised |-> raised,
                err |-> err,
                ret |-> ret]

ClientInitialize(resp) ==
    /\ pc = "ready"
    /\ LET out == ResponseValue(resp) IN
       /\ Exchange("initialize", resp, ~out.ok, IF out.ok THEN "" ELSE out.err, NotYet)
       /\ init_result' = IF out.ok THEN out.v ELSE NotYet
       /\ pc' = IF out.ok THEN "notify" ELSE "ready"
    /\ UNCHANGED <<_tools, chatVars, pureVars, requests>>

ClientNotify(resp) ==
    /\ pc = "notify"
    /\ LET out == ResponseValue(resp) IN
       Exchange("notifications/initialized", resp, ~out.ok,
                IF out.ok THEN "" ELSE out.err,
                IF out.ok THEN init_result ELSE NotYet)
    /\ init_result' = NotYet
    /\ pc' = "ready"
    /\ UNCHANGED <<_tools, chatVars, pureVars, requests>>

ClientListTools(resp) ==
    /\ pc = "ready"
    /\ LET r == list_tools(_tools, ResponseValue(resp)) IN
       /\ Exchange("tools/list", resp, r.raised, IF r.raised THEN r.err ELSE "",
                   IF r.raised THEN NotYet ELSE r.ret)
       /\ _tools' = r.stored
    /\ UNCHANGED <<init_result, pc, chatVars, pureVars, requests>>

ClientCallTool(resp) ==
    /\ pc = "ready"
    /\ LET r == call_tool(ResponseValue(resp)) IN
       Exchange("tools/call", resp, ~r.ok, IF r.ok THEN "" ELSE r.err,
                IF r.ok THEN r.v ELSE NotYet)
    /\ UNCHANGED <<_tools, init_result, pc, chatVars, pureVars, requests>>

ClientClose ==
    /\ pc = "ready"
    /\ pc' = "closed"
    /\ UNCHANGED <<clientVars, chatVars, pureVars, requests>>

NextClient ==
    \/ \E resp \in ClientResponses : ClientInitialize(resp)
    \/ \E resp \in ClientResponses : ClientNotify(resp)
    \/ \E resp \in ClientResponses : ClientListTools(resp)
    \/ \E resp \in ClientResponses : ClientCallTool(resp)
    \/ ClientClose

SpecClient == InitClient /\ [][NextClient]_vars

----------------------------------------------------------------------------
(* The agent: AIFoundryMCPAgent and the console loop of main().            *)

(* An invocation's argument string: a JSON object, a JSON value that is no *)
(* object, or text json.loads rejects.                                     *)
ArgObject == "{\"query\": \"A\"}"
ArgScalar == "5"
ArgMalformed == "{\"query\": "
ArgStrings == {ArgObject, ArgScalar, ArgMalformed}

json_loads(s) ==
    CASE s = ArgObject -> [ok |-> TRUE, v |-> EmptyObj]
      [] s = ArgScalar -> [ok |-> TRUE, v |-> JNum]
      [] OTHER -> [ok |-> FALSE, err |-> "JSONDecodeError"]

DefaultSchema == With("type", JStr("object"))

(* One entry of the schema _get_tools builds: tool["name"] needs a dict    *)
(* with a name; description and inputSchema have defaults.                 *)
SchemaEntry(tool) ==
    [name |-> tool.f["name"],
     description |-> IF tool.f["description"] = Absent THEN JStr("")
                     ELSE tool.f["description"],
     parameters |-> IF tool.f["inputSchema"] = Absent THEN DefaultSchema
                    ELSE tool.f["inputSchema"]]

GetToolsNoDefaultMutant(stored) ==
    LET it == Iterate(stored) IN
    IF ~it.ok THEN it
    ELSE IF stored.k = "obj" /\ stored # EmptyObj
    THEN [ok |-> FALSE, err |-> "TypeError"]  \* the keys of a dict are str
    ELSE IF \E i \in 1..Len(it.v) : it.v[i].k # "obj"
    THEN [ok |-> FALSE, err |-> "TypeError"]
    ELSE IF \E i \in 1..Len(it.v) : it.v[i].f["name"] = Absent
    THEN [ok |-> FALSE, err |-> "KeyError"]
    ELSE [ok |-> TRUE,
          v |-> [i \in 1..Len(it.v) |->
                    [SchemaEntry(it.v[i]) EXCEPT
                        !.parameters = IF it.v[i].f["inputSchema"] = Absent
                                       THEN EmptyObj ELSE @]]]

_get_tools(stored) ==
    LET it == Iterate(stored) IN
    IF ~it.ok THEN it
    ELSE IF stored.k = "obj" /\ stored # EmptyObj
    THEN [ok |-> FALSE, err |-> "TypeError"]  \* the keys of a dict are str
    ELSE IF \E i \in 1..Len(it.v) : it.v[i].k # "obj"
    THEN [ok |-> FALSE, err |-> "TypeError"]
    ELSE IF \E i \in 1..Len(it.v) : it.v[i].f["name"] = Absent
    THEN [ok |-> FALSE, err |-> "KeyError"]
    ELSE [ok |-> TRUE, v |-> [i \in 1..Len(it.v) |-> SchemaEntry(it.v[i])]]

(* _execute_tool once the arguments are parsed: call_tool, then            *)
(* _extract_text_content of what it returned.                              *)
_execute_tool(resp) ==
    LET r == call_tool(ResponseValue(resp)) IN
    IF ~r.ok THEN r ELSE _extract_text_content(r.v)

SystemMsg == [role |-> "system"]
UserMsg == [role |-> "user", content |-> "u"]

(* `assistant_message.content or ""` *)
OrEmpty(c) == IF c = None \/ c = "" THEN "" ELSE c

AssistantToolMsg(c, tcs) ==
    [role |-> "assistant", content |-> OrEmpty(c), tool_calls |-> tcs]

ToolMsg(tc, content) ==
    [role |-> "tool", tool_call_id |-> tc.id, content |-> content]

FinalMessageRawMutant(c) == [role |-> "assistant", content |-> c]

FinalMessage(c) == [role |-> "assistant", content |-> OrEmpty(c)]

(* One iteration of the for loop over tool_calls: what it leaves in the    *)
(* history, whether it raised, and how many tools/call requests it sent.   *)
LoopStepFabricateMutant(msgs, tc, resp) ==
    LET args == json_loads(tc.arguments) IN
    IF ~args.ok
    THEN [raised |-> TRUE, err |-> args.err, at |-> "json.loads",
          messages |-> msgs, posts |-> 0]
    ELSE LET r == _execute_tool(resp) IN
         IF ~r.ok
         THEN [raised |-> TRUE, err |-> r.err, at |-> "_execute_tool",
               messages |-> Append(msgs, ToolMsg(tc, [ok |-> FALSE, err |-> r.err])),
               posts |-> Posts(resp)]
         ELSE [raised |-> FALSE, err |-> "", at |-> "",
               messages |-> Append(msgs, ToolMsg(tc, r)), posts |-> Posts(resp)]

LoopStepSkipMutant(msgs, tc, resp) ==
    LET args == json_loads(tc.arguments) IN
    IF ~args.ok
    THEN [raised |-> TRUE, err |-> args.err, at |-> "json.loads",
          messages |-> msgs, posts |-> 0]
    ELSE LET r == _execute_tool(resp) IN
         IF ~r.ok
         THEN [raised |-> FALSE, err |-> "", at |-> "",
               messages |-> msgs, posts |-> Posts(resp)]
         ELSE [raised |-> FALSE, err |-> "", at |-> "",
               messages |-> Append(msgs, ToolMsg(tc, r)), posts |-> Posts(resp)]

LoopStepCallFirstMutant(msgs, tc, resp) ==
    LET args == json_loads(tc.arguments)
        r == _execute_tool(resp) IN
    IF ~r.ok
    THEN [raised |-> TRUE, err |-> r.err, at |-> "_execute_tool",
          messages |-> msgs, posts |-> Posts(resp)]
    ELSE IF ~args.ok
    THEN [raised |-> TRUE, err |-> args.err, at |-> "json.loads",
          messages |-> msgs, posts |-> Posts(resp)]
    ELSE [raised |-> FALSE, err |-> "", at |-> "",
          messages |-> Append(msgs, ToolMsg(tc, r)), posts |-> Posts(resp)]

LoopStepRollbackMutant(msgs, tc, resp) ==
    LET args == json_loads(tc.arguments) IN
    IF ~args.ok
    THEN [raised |-> TRUE, err |-> args.err, at |-> "json.loads",
          messages |-> msgs, posts |-> 0]
    ELSE LET r == _execute_tool(resp) IN
         IF ~r.ok
         THEN [raised |-> TRUE, err |-> r.err, at |-> "_execute_tool",
               messages |-> SubSeq(msgs, 1, Len(msgs) - 1), posts |-> Posts(resp)]
         ELSE [raised |-> FALSE, err |-> "", at |-> "",
               messages |-> Append(msgs, ToolMsg(tc, r)), posts |-> Posts(resp)]

LoopStep(msgs, tc, resp) ==
    LET args == json_loads(tc.arguments) IN
    IF ~args.ok
    THEN [raised |-> TRUE, err |-> args.err, at |-> "json.loads",
          messages |-> msgs, posts |-> 0]
    ELSE LET r == _execute_tool(resp) IN
         IF ~r.ok
         THEN [raised |-> TRUE, err |-> r.err, at |-> "_execute_tool",
               messages |-> msgs, posts |-> Posts(resp)]
         ELSE [raised |-> FALSE, err |-> "", at |-> "",
               messages |-> Append(msgs, ToolMsg(tc, r)), posts |-> Posts(resp)]

----------------------------------------------------------------------------
(* Spec: one run of main().  The server and the completion endpoint answer *)
(* with any value of the sets below.                                       *)

HandshakeResponses ==
    {Response("ok", "s1", JsonBody(With("result", EmptyObj))),
     Response("ok", "s1", [ctype |-> "sse", body |-> SseBody(<<>>)]),
     Response("error", NoHeader, NoBody)}

ListingResponses ==
    {Response("ok", NoHeader, JsonBody(With("result", With("tools", Listing2)))),
     Response("ok", NoHeader, JsonBody(EmptyObj)),
     Response("ok", NoHeader, JsonBody(With("result", JNull))),
     Response("error", NoHeader, NoBody)}

ToolResponses ==
    {Response("ok", NoHeader,
              JsonBody(With("result", With("content", JList(<<TextBlock("A")>>))))),
     Response("ok", NoHeader,
              [ctype |-> "sse",
               body |-> SseBody(<<[p |-> "data: ",
                                   d |-> With("result", With("content",
                                            JList(<<TextBlock("A"), ImageBlock,
                                                    TextBlock("B")>>)))]>>)]),
     Response("ok", NoHeader, JsonBody(With("content", JList(<<TextBlock("A")>>)))),
     Response("ok", NoHeader, JsonBody(With("result", With("content", JNum)))),
     Response("ok", NoHeader, JsonBody(Bad)),
     Response("error", "s1", NoBody),
     Response("timeout", NoHeader, NoBody)}

Contents == {None, "a"}

(* The invocations of a completion response: ids are fresh (the endpoint   *)
(* issues a new id for every tool call), first the id `base + 1`.          *)
Invocations(base, n) ==
    {[i \in 1..n |-> [id |-> base + i, name |-> "search", arguments |-> args[i]]] :
        args \in [1..n -> ArgStrings]}

Min(a, b) == IF a < b THEN a ELSE b

(* What the completion endpoint may return now: an exception, or a message *)
(* with content and at most MaxBatch invocations.                          *)
CompletionResponses ==
    {[raised |-> TRUE]}
    \cup {[raised |-> FALSE, content |-> c, tool_calls |-> tcs] :
            c \in Contents,
            tcs \in UNION {Invocations(MaxInvocations - budget.inv, n) :
                            n \in 0..(IF budget.calls > 0
                                      THEN Min(MaxBatch, budget.inv) ELSE 0)}}

Init ==
    /\ ClientFresh /\ ChatFresh /\ PureUnused
    /\ requests = NoLog
    /\ pc = "new"

(* The record of the client's requests is kept under SpecClient only.      *)
ghostClient == <<last, hdrOk, hdrAny>>

(* AIFoundryMCPAgent.__init__: initialize (two requests), then list_tools. *)
(* An exception leaves main() before its try block: the process ends.      *)
AgentInitializeSwallowMutant(resp) ==
    /\ pc = "new"
    /\ LET out == ResponseValue(resp) IN
       /\ session_id' = SessionAfter(session_id, resp)
       /\ init_result' = IF out.ok THEN out.v ELSE NotYet
       /\ pc' = "notify"
    /\ requests' = Logged(requests, "initialize", resp)
    /\ UNCHANGED <<_tools, ghostClient, chatVars, pureVars>>

AgentInitialize(resp) ==
    /\ pc = "new"
    /\ LET out == ResponseValue(resp) IN
       /\ session_id' = SessionAfter(session_id, resp)
       /\ init_result' = IF out.ok THEN out.v ELSE NotYet
       /\ pc' = IF out.ok THEN "notify" ELSE "crashed"
    /\ requests' = Logged(requests, "initialize", resp)
    /\ UNCHANGED <<_tools, ghostClient, chatVars, pureVars>>

AgentNotify(resp) ==
    /\ pc = "notify"
    /\ session_id' = SessionAfter(session_id, resp)
    /\ init_result' = NotYet
    /\ pc' = IF ResponseValue(resp).ok THEN "list" ELSE "crashed"
    /\ requests' = Logged(requests, "notifications/initialized", resp)
    /\ UNCHANGED <<_tools, ghostClient, chatVars, pureVars>>

AgentListTools(resp) ==
    /\ pc = "list"
    /\ LET r == list_tools(_tools, ResponseValue(resp)) IN
       /\ session_id' = SessionAfter(session_id, resp)
       /\ _tools' = r.stored
       /\ pc' = IF r.raised THEN "crashed" ELSE "idle"
    /\ requests' = Logged(requests, "tools/list", resp)
    /\ UNCHANGED <<init_result, ghostClient, chatVars, pureVars>>

(* mcp_client.list_tools() called on the agent's client between two chat   *)
(* calls.  An exception goes to that caller and leaves the agent as it is. *)
RefreshTools(resp) ==
    /\ pc = "idle"
    /\ LET r == list_tools(_tools, ResponseValue(resp)) IN
       /\ session_id' = SessionAfter(session_id, resp)
       /\ _tools' = r.stored
    /\ requests' = Logged(requests, "tools/list", resp)
    /\ UNCHANGED <<init_result, ghostClient, chatVars, pc, pureVars>>

(* chat, from its entry to the first completion call.                      *)
ChatBegin ==
    /\ pc = "idle"
    /\ budget.turns > 0 /\ budget.calls > 0
    /\ messages' = Append(messages, UserMsg)
    /\ LET t == _get_tools(_tools) IN
       IF ~t.ok
       THEN /\ outcome' = [ok |-> FALSE, err |-> t.err, at |-> "_get_tools"]
            /\ turn' = NewTurn(Len(messages), 0)
            /\ budget' = [budget EXCEPT !.turns = @ - 1]
            /\ sent' = NotYet
            /\ UNCHANGED <<pc, tools>>
       ELSE /\ tools' = t.v
            /\ sent' = [messages |-> <<SystemMsg>> \o messages',
                        tools |-> IF t.v = <<>> THEN None ELSE t.v,
                        omitted |-> t.v = <<>>]
            /\ turn' = NewTurn(Len(messages), 1)
            /\ budget' = [budget EXCEPT !.turns = @ - 1, !.calls = @ - 1]
            /\ outcome' = NotYet
            /\ pc' = "awaiting"
    /\ UNCHANGED <<clientVars, batch, idx, pureVars, requests>>

CompletionSingleRoundMutant(resp) ==
    /\ pc = "awaiting"
    /\ IF resp.raised
       THEN /\ outcome' = [ok |-> FALSE, err |-> "APIError", at |-> "completion"]
            /\ pc' = "idle"
            /\ tools' = NotYet
            /\ UNCHANGED <<messages, batch, idx, turn, budget>>
       ELSE IF resp.tool_calls # <<>> /\ turn.calls = 1
       THEN /\ messages' = Append(messages, AssistantToolMsg(resp.content, resp.tool_calls))
            /\ batch' = resp.tool_calls
            /\ idx' = 1
            /\ turn' = [turn EXCEPT !.rounds = Append(@, Len(resp.tool_calls))]
            /\ budget' = [budget EXCEPT !.inv = @ - Len(resp.tool_calls)]
            /\ pc' = "executing"
            /\ UNCHANGED <<outcome, tools>>
       ELSE /\ messages' = Append(messages, FinalMessage(resp.content))
            /\ outcome' = [ok |-> TRUE, v |-> OrEmpty(resp.content)]
            /\ pc' = "idle"
            /\ tools' = NotYet
            /\ turn' = IF resp.tool_calls # <<>>
                       THEN [turn EXCEPT !.rounds = Append(@, Len(resp.tool_calls))]
                       ELSE turn
            /\ UNCHANGED <<batch, idx, budget>>
    /\ UNCHANGED <<clientVars, sent, pureVars, requests>>

(* The completion call returns (or raises).                                *)
Completion(resp) ==
    /\ pc = "awaiting"
    /\ IF resp.raised
       THEN /\ outcome' = [ok |-> FALSE, err |-> "APIError", at |-> "completion"]
            /\ pc' = "idle"
            /\ tools' = NotYet
            /\ UNCHANGED <<messages, batch, idx, turn, budget>>
       ELSE IF resp.tool_calls # <<>>
       THEN /\ messages' = Append(messages, AssistantToolMsg(resp.content, resp.tool_calls))
            /\ batch' = resp.tool_calls
            /\ idx' = 1
            /\ turn' = [turn EXCEPT !.rounds = Append(@, Len(resp.tool_calls))]
            /\ budget' = [budget EXCEPT !.inv = @ - Len(resp.tool_calls)]
            /\ pc' = "executing"
            /\ UNCHANGED <<outcome, tools>>
       ELSE /\ messages' = Append(messages, FinalMessage(resp.content))
            /\ outcome' = [ok |-> TRUE, v |-> OrEmpty(resp.content)]
            /\ pc' = "idle"
            /\ tools' = NotYet
            /\ UNCHANGED <<batch, idx, turn, budget>>
    /\ UNCHANGED <<clientVars, sent, pureVars, requests>>

(* One iteration of the for loop over the batch.                           *)
ExecTool(resp) ==
    /\ pc = "executing"
    /\ idx <= Len(batch)
    /\ LET step == LoopStep(messages, batch[idx], resp) IN
       /\ messages' = step.messages
       /\ turn' = [turn EXCEPT !.toolPosts = @ + step.posts,
                                !.httpFailed = step.posts > 0 /\ resp.status # "ok",
                                !.malformed = batch[idx].arguments = ArgMalformed]
       /\ session_id' = IF step.posts > 0 THEN SessionAfter(session_id, resp)
                        ELSE session_id
       /\ IF step.raised
          THEN /\ outcome' = [ok |-> FALSE, err |-> step.err, at |-> step.at,
                              id |-> batch[idx].id,
                              rest |-> {batch[i].id : i \in idx..Len(batch)},
                              before |-> messages]
               /\ pc' = "idle"
               /\ tools' = NotYet
               /\ batch' = <<>>
               /\ idx' = 1
          ELSE /\ idx' = idx + 1
               /\ UNCHANGED <<outcome, pc, tools, batch>>
       /\ requests' = IF step.posts > 0
                      THEN Logged(requests, "tools/call", resp)
                      ELSE requests
    /\ UNCHANGED <<_tools, init_result, ghostClient, sent, budget, pureVars>>

(* The batch is answered: the next completion call is issued.              *)
NextCompletion ==
    /\ pc = "executing"
    /\ idx > Len(batch)
    /\ sent' = [messages |-> <<SystemMsg>> \o messages, tools |-> tools,
                omitted |-> FALSE]
    /\ turn' = [turn EXCEPT !.calls = @ + 1]
    /\ budget' = [budget EXCEPT !.calls = @ - 1]
    /\ pc' = "awaiting"
    /\ batch' = <<>>
    /\ idx' = 1
    /\ UNCHANGED <<clientVars, messages, tools, outcome, pureVars, requests>>

(* main(): the "clear" and "quit" commands.  The ghosts describe the last   *)
(* chat call; they are reset with the history they describe.               *)
Clear ==
    /\ pc = "idle"
    /\ messages # <<>>
    /\ messages' = <<>>
    /\ outcome' = NotYet
    /\ sent' = NotYet
    /\ turn' = NoTurn
    /\ UNCHANGED <<clientVars, pc, tools, batch, idx, budget, pureVars, requests>>

Quit ==
    /\ pc = "idle"
    /\ pc' = "closed"
    /\ outcome' = NotYet
    /\ sent' = NotYet
    /\ turn' = NoTurn
    /\ UNCHANGED <<clientVars, messages, tools, batch, idx, budget, pureVars, requests>>

Next ==
    \/ \E resp \in HandshakeResponses : AgentInitialize(resp)
    \/ \E resp \in HandshakeResponses : AgentNotify(resp)
    \/ \E resp \in ListingResponses : AgentListTools(resp)
    \/ ChatBegin
    \/ \E resp \in CompletionResponses : Completion(resp)
    \/ \E resp \in ToolResponses : ExecTool(resp)
    \/ NextCompletion
    \/ Clear
    \/ Quit

Spec == Init /\ [][Next]_vars

(* SpecRefresh: the agent used by a caller that, unlike main(), also       *)
(* refreshes the tool set between turns.                                   *)
NextRefresh ==
    \/ Next
    \/ \E resp \in ListingResponses : RefreshTools(resp)

SpecRefresh == Init /\ [][NextRefresh]_vars

(* SpecRequests: the run of main() with the log of its requests kept.      *)
InitRequests ==
    /\ ClientFresh /\ ChatFresh /\ PureUnused
    /\ requests = EmptyLog
    /\ pc = "new"

SpecRequests == InitRequests /\ [][Next]_vars

(* SpecLive: the run of main() when every call made inside chat returns    *)
(* (or raises): the synchronous calls at main.py 98, 129 and 139 block     *)
(* until then, and the caller is never preempted for good.                 *)
SpecLive ==
    /\ Spec
    /\ WF_vars(\E resp \in CompletionResponses : Completion(resp))
    /\ WF_vars(\E resp \in ToolResponses : ExecTool(resp))
    /\ WF_vars(NextCompletion)

----------------------------------------------------------------------------
(* Claims about a chat turn.                                               *)

IsInvoking(m) == m.role = "assistant" /\ "tool_calls" \in DOMAIN m

IsResultFor(m, id) == m.role = "tool" /\ m.tool_call_id = id

(* In L, the invoking message at p is followed by one result per           *)
(* invocation, in order, and by no other result.                           *)
Answered(L, p) ==
    LET tcs == L[p].tool_calls IN
    /\ p + Len(tcs) <= Len(L)
    /\ \A i \in 1..Len(tcs) : IsResultFor(L[p + i], tcs[i].id)
    /\ p + Len(tcs) + 1 <= Len(L) => L[p + Len(tcs) + 1].role # "tool"
    /\ \A i \in 1..Len(tcs) :
          Cardinality({q \in 1..Len(L) : IsResultFor(L[q], tcs[i].id)}) = 1

(* The messages the current turn appended.                                 *)
TurnMessages == SubSeq(messages, turn.start + 1, Len(messages))

TurnResults == {q \in 1..Len(TurnMessages) : TurnMessages[q].role = "tool"}

TurnInvoking == {q \in 1..Len(TurnMessages) : IsInvoking(TurnMessages[q])}

(* C1: while a batch is executed the history ends with the invoking        *)
(* message and the results of the invocations done so far, in order; and   *)
(* the message list of every completion call holds, for each invoking      *)
(* message of the turn, exactly one result per invocation, in order.       *)
C1_BatchAnsweredInOrder ==
    /\ pc = "executing" =>
          LET p == Len(messages) - (idx - 1) IN
          /\ p >= 1
          /\ IsInvoking(messages[p])
          /\ messages[p].tool_calls = batch
          /\ \A i \in 1..(idx - 1) : IsResultFor(messages[p + i], batch[i].id)
    /\ (pc \in {"awaiting", "executing"} /\ sent # NotYet) =>
          \A p \in (turn.start + 2)..Len(sent.messages) :
              IsInvoking(sent.messages[p]) => Answered(sent.messages, p)

C1_Witness ==
    /\ pc = "awaiting"
    /\ turn.calls = 2
    /\ turn.rounds = <<2>>
    /\ Len(sent.messages) = turn.start + 5

(* C3: when a tools/call request of the turn fails, chat raises; the        *)
(* failing step leaves the history as it was, the user message and the     *)
(* earlier rounds included; no result exists for the failed invocation;    *)
(* and no request or completion call follows the failed one.               *)
C3_ToolFailureAborts ==
    turn.httpFailed =>
        /\ pc = "idle"
        /\ outcome # NotYet /\ ~outcome.ok
        /\ outcome.err \in {"HTTPStatusError", "TransportError"}
        /\ messages = outcome.before
        /\ TurnMessages[1] = UserMsg
        /\ \A q \in 1..Len(messages) : ~IsResultFor(messages[q], outcome.id)
        /\ turn.toolPosts = Cardinality(TurnResults) + 1
        /\ turn.calls = Cardinality(TurnInvoking)

C3_Witness ==
    /\ turn.httpFailed
    /\ turn.rounds = <<1, 1>>
    /\ Len(TurnMessages) = 4
    /\ outcome.err = "HTTPStatusError"

(* C4: when the loop reaches an invocation whose argument string is not    *)
(* JSON, chat raises the parse error; no tools/call request was sent for   *)
(* it (every request sent has its result in the history), and neither it   *)
(* nor a later invocation of the batch has a result.                       *)
C4_MalformedArgumentsAbort ==
    turn.malformed =>
        /\ pc = "idle"
        /\ outcome # NotYet /\ ~outcome.ok
        /\ outcome.err = "JSONDecodeError" /\ outcome.at = "json.loads"
        /\ messages = outcome.before
        /\ turn.toolPosts = Cardinality(TurnResults)
        /\ \A id \in outcome.rest :
              \A q \in 1..Len(messages) : ~IsResultFor(messages[q], id)

C4_Witness ==
    /\ turn.malformed
    /\ Cardinality(outcome.rest) = 2
    /\ turn.toolPosts = 0
    /\ Len(TurnMessages) = 2

RECURSIVE SumSeq(_)
SumSeq(ns) == IF ns = <<>> THEN 0 ELSE Head(ns) + SumSeq(Tail(ns))

(* The position in TurnMessages of the invoking message of round r.        *)
RoundStart(r) == 2 + SumSeq([i \in 1..(r - 1) |-> 1 + turn.rounds[i]])

(* C6: a turn that returns after rounds of n_1..n_k invocations appended   *)
(* 1 + sum(1 + n_i) + 1 messages: the user message, per round the invoking *)
(* message and its results, and a final assistant message without          *)
(* invocations whose content is the value chat returned.                   *)
C6_SuccessfulTurnShape ==
    (pc = "idle" /\ outcome # NotYet /\ outcome.ok) =>
        /\ Len(TurnMessages) = 1 + SumSeq([i \in 1..Len(turn.rounds) |->
                                              1 + turn.rounds[i]]) + 1
        /\ TurnMessages[1] = UserMsg
        /\ \A r \in 1..Len(turn.rounds) :
              /\ IsInvoking(TurnMessages[RoundStart(r)])
              /\ Len(TurnMessages[RoundStart(r)].tool_calls) = turn.rounds[r]
              /\ \A i \in 1..turn.rounds[r] :
                    TurnMessages[RoundStart(r) + i].role = "tool"
        /\ messages[Len(messages)] = [role |-> "assistant", content |-> outcome.v]

C6_Witness ==
    /\ pc = "idle" /\ outcome # NotYet /\ outcome.ok
    /\ turn.rounds = <<1, 1>>
    /\ outcome.v = ""

----------------------------------------------------------------------------
(* Claims about the pure functions.                                        *)

(* A frame in the wire format `data: <json>` whose JSON is an object with  *)
(* a result key.                                                           *)
IsResultFrame(line) ==
    line.p = "data: " /\ line.d.k = "obj" /\ line.d.f["result"] # Absent

LastResultFrame(lines) ==
    LET hit == {i \in 1..Len(lines) : IsResultFrame(lines[i])} IN
    IF hit = {} THEN EmptyObj
    ELSE lines[CHOOSE i \in hit : \A j \in hit : j <= i].d

(* C5: for every text/event-stream body the parse returns the payload of   *)
(* the last data frame whose JSON has a result key, whatever frames        *)
(* precede or follow it, and the empty object when no frame has one.       *)
C5_LastResultFrame ==
    sse_out \notin {NotYet, NoInput} =>
        sse_out = [ok |-> TRUE, v |-> LastResultFrame(sse_text)]

(* C7: _extract_text_content returns a string and raises nothing, for      *)
(* every tool result value.                                                *)
C7_ExtractNeverFails ==
    ex_out \notin {NotYet, NoInput} => ex_out.ok

HasContentArray(r) ==
    r.k = "obj" /\ r.f["content"] # Absent /\ r.f["content"].k = "list"

TextBlocksOf(r) == SelectSeq(r.f["content"].xs, IsTextItem)

(* The text field of a block as a string; a block without one gives "".   *)
TextField(block) ==
    LET t == block.f["text"] IN
    IF t = Absent THEN <<>>
    ELSE IF t.k = "str" THEN Chars(t.s)
    ELSE <<"<not a string>">>

(* C8: for a result with a content array the extraction is the text fields *)
(* of the elements whose type is text, in array order, newline-joined.     *)
C8_JoinedTextBlocks ==
    (ex_out \notin {NotYet, NoInput} /\ HasContentArray(ex_in)) =>
        /\ ex_out.ok
        /\ ex_out.k = "joined"
        /\ ex_out.s = Join([i \in 1..Len(TextBlocksOf(ex_in)) |->
                                TextField(TextBlocksOf(ex_in)[i])])

(* The body with every frame removed that is not `data: <json>` with a     *)
(* JSON object holding a result key.                                       *)
WellFormedFrames(lines) == SelectSeq(lines, IsResultFrame)

(* C17: _parse_sse_response raises on no body, and a frame that is not a   *)
(* well-formed result-bearing object is skipped: the parse returns what it *)
(* returns for the body without those frames.                              *)
C17_SseParsingTotal ==
    sse_out \notin {NotYet, NoInput} =>
        /\ sse_out.ok
        /\ sse_out = _parse_sse_response(WellFormedFrames(sse_text))

----------------------------------------------------------------------------
(* Claims about the client.                                                *)

(* What a request carries once hdr is the session id captured: the header  *)
(* with that value; an empty value is no session id and is not sent.       *)
HeaderFor(hdr) == IF hdr = NoHeader \/ hdr = "" THEN NoHeader ELSE hdr

(* C2 as stated: a request carries no session header before the first      *)
(* response with an Mcp-Session-Id header, and after a response with one   *)
(* (of whatever status) it carries the header with that response's value.  *)
C2_HeaderAfterAnyResponse ==
    last # NoOp => last.hdr = HeaderFor(last.before.hdrAny)

(* C2 as amended: a request carries no session header before the first     *)
(* successful response with an Mcp-Session-Id header, and after one it     *)
(* carries the header with the value of the most recent such response.     *)
C2_HeaderAfterSuccessfulResponse ==
    last # NoOp => last.hdr = HeaderFor(last.before.hdrOk)

C2_Witness ==
    /\ last # NoOp
    /\ last.method = "tools/call"
    /\ last.before.hdrOk = "s2"
    /\ last.hdr = "s2"
    /\ last.before.hdrAny = "s1"

(* C10: a request answered with a non-success status makes the operation   *)
(* fail with HTTPStatusError and return nothing, after exactly one POST,   *)
(* and leaves session_id and _tools as they were, whatever session header  *)
(* the failing response carried.                                           *)
C10_ErrorStatusFails ==
    (last # NoOp /\ last.resp.status = "error") =>
        /\ last.raised
        /\ last.err = "HTTPStatusError"
        /\ last.ret = NotYet
        /\ last.posts = 1
        /\ session_id = last.before.session_id
        /\ _tools = last.before._tools

C10_Witness ==
    /\ last # NoOp
    /\ last.method = "tools/list"
    /\ last.resp.status = "error"
    /\ last.resp.sid = "s2"
    /\ session_id = "s1"
    /\ _tools = Listing1

(* The JSON-RPC response a successful exchange delivered.                  *)
Delivered(resp) ==
    IF resp.ctype = "sse" THEN LastResultFrame(resp.body.lines) ELSE resp.body

HasListing(v) ==
    /\ v.k = "obj"
    /\ v.f["result"].k = "obj"
    /\ v.f["result"].f["tools"] # Absent

(* C9: list_tools replaces the stored tool set by the listing of a         *)
(* well-formed response; on a response without result, or whose result has *)
(* no tools, it raises nothing, keeps the stored set and returns it.       *)
C9_ListToolsDefensive ==
    (/\ last # NoOp
     /\ last.method = "tools/list"
     /\ last.resp.status = "ok"
     /\ Delivered(last.resp).k = "obj") =>
        LET v == Delivered(last.resp) IN
        IF HasListing(v)
        THEN /\ ~last.raised
             /\ _tools = v.f["result"].f["tools"]
             /\ last.ret = v.f["result"].f["tools"]
        ELSE /\ ~last.raised
             /\ _tools = last.before._tools
             /\ last.ret = last.before._tools

(* The data frames of an SSE body.                                         *)
IsDataFrame(line) == line.p = "data: "

DataFrames(lines) == SelectSeq(lines, IsDataFrame)

(* The exchange recorded in last was successful and delivered a JSON       *)
(* object as the single data frame of a text/event-stream body.            *)
SingleFrameDelivery ==
    /\ last # NoOp
    /\ last.resp.status = "ok"
    /\ last.resp.ctype = "sse"
    /\ Len(DataFrames(last.resp.body.lines)) = 1
    /\ DataFrames(last.resp.body.lines)[1].d.k = "obj"

(* The same response with R delivered as an application/json body.         *)
AsJson(resp, R) == Response(resp.status, resp.sid, JsonBody(R))

(* C11 as stated: for every JSON-RPC response object R, result-bearing or  *)
(* error-bearing, _make_request returns for R delivered as the single data *)
(* frame of an event stream what it returns for R delivered as JSON.       *)
C11_TransportIndependent ==
    SingleFrameDelivery =>
        last.value = ResponseValue(AsJson(last.resp,
                                          DataFrames(last.resp.body.lines)[1].d))

(* C11 as amended: the two deliveries give the same value, R, when R has a *)
(* result key; for an object without one the JSON delivery gives R and the *)
(* event-stream delivery the empty object.                                 *)
C11_TransportIndependentForResults ==
    SingleFrameDelivery =>
        LET R == DataFrames(last.resp.body.lines)[1].d
            json == ResponseValue(AsJson(last.resp, R)) IN
        /\ json = [ok |-> TRUE, v |-> R]
        /\ last.value = IF R.f["result"] # Absent THEN json
                        ELSE [ok |-> TRUE, v |-> EmptyObj]

C11_Witness ==
    /\ SingleFrameDelivery
    /\ last.method = "tools/call"
    /\ DataFrames(last.resp.body.lines)[1].d.f["result"] # Absent
    /\ Len(last.resp.body.lines) = 2
    /\ last.value.v = With("result", With("tools", Listing1))

(* A session id is set: a non-empty value has been captured.               *)
IsSet(sess) == sess # None /\ sess # ""

C16_NotificationResponseIgnored ==
    (last # NoOp /\ last.method = "notifications/initialized") =>
        /\ ~last.raised
        /\ last.ret = last.before.init_result


IsPrefix(a, b) == Len(a) <= Len(b) /\ SubSeq(b, 1, Len(a)) = a

(* A step taken inside chat: its entry (which uses up a turn of the        *)
(* budget) or a step of a turn in progress.                                *)
TurnStep == pc \in {"awaiting", "executing"} \/ budget'.turns < budget.turns

(* C14: every step of a chat turn, of a turn that returns and of one that  *)
(* raises, leaves a history that extends the history before it; and the    *)
(* message list of a completion call is the system prompt followed by the  *)
(* whole history.                                                          *)
C14_HistoryAppendOnly ==
    /\ [][TurnStep => IsPrefix(messages, messages')]_vars
    /\ [](pc = "awaiting" => sent.messages = <<SystemMsg>> \o messages)

C14_Witness ==
    /\ pc = "idle"
    /\ outcome # NotYet /\ ~outcome.ok
    /\ outcome.at = "_execute_tool"
    /\ turn.start > 0
    /\ Len(TurnMessages) = 3
    /\ TurnMessages[3].role = "tool"

(* In L, every invocation of the invoking message at p has its result      *)
(* after p, with only tool results between p and it.                       *)
AnsweredBeforeNext(L, p) ==
    \A i \in 1..Len(L[p].tool_calls) :
        \E q \in (p + 1)..Len(L) :
            /\ IsResultFor(L[q], L[p].tool_calls[i].id)
            /\ \A j \in (p + 1)..(q - 1) : L[j].role = "tool"

(* C18: in the message list of every completion call, of whatever turn,    *)
(* each invoking message is followed by a result for each of its           *)
(* invocations before any later user or assistant message.                 *)
C18_SentListsWellFormed ==
    (pc = "awaiting" /\ sent # NotYet) =>
        \A p \in 2..Len(sent.messages) :
            IsInvoking(sent.messages[p]) => AnsweredBeforeNext(sent.messages, p)


(* The schema of the last completion call: tools=None carries no entry.    *)
SentSchema == IF sent.omitted THEN <<>> ELSE sent.tools

(* C13: the schema of every completion call has one entry per descriptor   *)
(* of the client's tool set (as its last list_tools call left it), in      *)
(* listing order: the descriptor's name, its description, and its          *)
(* inputSchema or, without one, the empty object schema.                   *)
C13_SchemaReflectsToolSet ==
    pc = "awaiting" =>
        /\ _tools.k = "list"
        /\ Len(SentSchema) = Len(_tools.xs)
        /\ \A i \in 1..Len(_tools.xs) :
              LET d == _tools.xs[i] IN
              /\ SentSchema[i].name = d.f["name"]
              /\ d.f["description"] # Absent =>
                    SentSchema[i].description = d.f["description"]
              /\ SentSchema[i].parameters =
                    IF d.f["inputSchema"] = Absent THEN DefaultSchema
                    ELSE d.f["inputSchema"]

C13_Witness ==
    /\ pc = "awaiting"
    /\ turn.start > 0
    /\ turn.calls = 2
    /\ ~sent.omitted
    /\ Len(sent.tools) = 2
    /\ messages[1] = UserMsg
    /\ messages[2] = FinalMessage("a")

(* C15: the agent's client sends initialize once, as its first request;    *)
(* when that exchange succeeds the next request is                         *)
(* notifications/initialized; every tools/list and tools/call comes after  *)
(* both, on a client whose initialize() returned.                          *)
C15_HandshakePrecedesTools ==
    LET log == requests.log IN
    /\ Cardinality({i \in 1..Len(log) : log[i].method = "initialize"})
          = IF pc = "new" THEN 0 ELSE 1
    /\ log # <<>> => log[1].method = "initialize"
    /\ Len(log) >= 2 => log[1].ok /\ log[2].method = "notifications/initialized"
    /\ (log # <<>> /\ log[1].ok /\ pc # "notify") => Len(log) >= 2
    /\ \A i \in 1..Len(log) :
          log[i].method \in {"tools/list", "tools/call"} =>
              i >= 3 /\ log[1].ok /\ log[2].ok

C15_Witness ==
    /\ Len(requests.log) = 5
    /\ requests.log[3].method = "tools/list"
    /\ requests.log[4].method = "tools/call" /\ ~requests.log[4].ok
    /\ requests.log[5].method = "tools/call" /\ requests.log[5].ok

(* C19: when every call returns, a turn in progress ends, returning or     *)
(* raising; a batch that is answered always leads to another completion    *)
(* call, whatever the number of rounds so far; and a turn that returned    *)
(* followed every response carrying invocations by another call, so that   *)
(* the response it returned on is the one without invocations.             *)
C19_TurnTerminates ==
    /\ (pc \in {"awaiting", "executing"}) ~> (pc = "idle")
    /\ (pc = "executing" /\ idx > Len(batch)) ~> (pc = "awaiting")
    /\ [](pc = "idle" /\ outcome # NotYet /\ outcome.ok =>
             /\ Len(turn.rounds) = turn.calls - 1
             /\ Cardinality(TurnInvoking) = Len(turn.rounds)
             /\ ~IsInvoking(messages[Len(messages)]))

C19_Witness ==
    /\ pc = "idle"
    /\ outcome # NotYet /\ outcome.ok
    /\ Len(turn.rounds) = MaxCalls - 1
    /\ budget.calls = 0


============================================================================
